---- MODULE Spec2Model ----
(***************************************************************************)
(* Order-mirroring engine of the copy-trading bot: SourceAccountListener   *)
(* (binance_config.py), CopyTradingBot (bot_config.py) and the parts of    *)
(* Database (database.py) the fanout reads and writes.                      *)
(*                                                                         *)
(* Python values: strings are TLA+ strings, None is the value None below,  *)
(* f-strings are string concatenation (\o), dicts are records.             *)
(***************************************************************************)
EXTENDS Integers, Sequences, FiniteSets, TLC

VARIABLES
    registry,      \* rows of binance_accounts / phemex_accounts: account -> "absent" | "active"
    bot,           \* CopyTradingBot: [source_listener, is_running]
    listeners,     \* the SourceAccountListener objects created so far
    venueOrders,   \* orders the target venues accepted, in the order of acceptance
    trades,        \* rows of the trades table (the ledger), in insertion order
    failedKeys,    \* per listener: the dedup keys whose mirror attempt failed in an earlier pass
    delivered,     \* number of stream messages handled so far
    lastPass,      \* what the last handle_socket_message call did
    polIn,         \* <<order_type, status>> handed to _should_mirror_event on its own
    polDone,       \* whether that evaluation has happened
    polOut,        \* and what it returned
    callIn,        \* an operation called on its own, with its arguments
    callOut,       \* and what the call returned
    stream,        \* the messages the user-data socket has received, in stream order
    current        \* the handle_socket_message call in progress, target by target

vars == <<registry, bot, listeners, venueOrders, trades, failedKeys,
          delivered, lastPass, polIn, polDone, polOut, callIn, callOut,
          stream, current>>

(***************************************************************************)
(* Bounds of the model                                                     *)
(***************************************************************************)
MaxDeliveries == 2
MaxListeners == 2

(***************************************************************************)
(* Python values                                                           *)
(***************************************************************************)
None == "<None>"

\* `x or d` for a string-or-None x
Or(x, d) == IF x = None \/ x = "" THEN d ELSE x

\* bool(x) of a string-or-None x
Truthy(x) == x # None /\ x # ""

\* str.upper() on the tokens of the model (tokens without cased letters are unchanged)
Upper(s) ==
    CASE s = "market" -> "MARKET"
      [] s = "Market" -> "MARKET"
      [] s = "limit" -> "LIMIT"
      [] s = "stop_market" -> "STOP_MARKET"
      [] s = "Stop_Market" -> "STOP_MARKET"
      [] s = "take_profit_market" -> "TAKE_PROFIT_MARKET"
      [] s = "new" -> "NEW"
      [] s = "New" -> "NEW"
      [] s = "filled" -> "FILLED"
      [] s = "canceled" -> "CANCELED"
      [] OTHER -> s

\* str.lower() on the tokens of the model
Lower(s) ==
    CASE s = "MARKET" -> "market"
      [] s = "Market" -> "market"
      [] s = "LIMIT" -> "limit"
      [] s = "STOP_MARKET" -> "stop_market"
      [] s = "Stop_Market" -> "stop_market"
      [] s = "TAKE_PROFIT_MARKET" -> "take_profit_market"
      [] s = "STOP" -> "stop"
      [] s = "BUY" -> "buy"
      [] s = "SELL" -> "sell"
      [] s = "FOO" -> "foo"
      [] s = "Buy" -> "buy"
      [] s = "LONG" -> "long"
      [] OTHER -> s

\* "{x}" inside an f-string, for a string-or-None x
Fmt(x) == IF x = None THEN "None" ELSE x

\* float(x) succeeds (x is a numeric string)
IsNumeric(x) == x \in {"0", "0.00", "0.01", "100", "100.5"}

(***************************************************************************)
(* MirrorPolicy                                                            *)
(***************************************************************************)
_should_mirror_event_AlwaysNew(order_type, status) ==
    Upper(Or(status, "")) = "NEW"

_should_mirror_event_Filled(order_type, status) ==
    LET ot == Upper(Or(order_type, ""))
        st == Upper(Or(status, ""))
    IN  IF ot \in {"MARKET"} THEN st \in {"NEW", "FILLED"}
        ELSE IF ot \in {"STOP_MARKET", "TAKE_PROFIT_MARKET"} THEN FALSE
        ELSE st = "NEW"

_should_mirror_event(order_type, status) ==
    LET ot == Upper(Or(order_type, ""))
        st == Upper(Or(status, ""))
        market_like == {"MARKET"}
    IN  IF ot \in market_like THEN st = "NEW"
        ELSE IF ot \in {"STOP_MARKET", "TAKE_PROFIT_MARKET"} THEN FALSE
        ELSE st = "NEW"

(***************************************************************************)
(* Deduplicator key                                                        *)
(***************************************************************************)
_dedup_key_NoVenue(exchange_type, account_id, symbol, side, order_type, source_order_id) ==
    ToString(account_id) \o ":" \o Fmt(symbol) \o ":" \o Fmt(side) \o ":"
        \o Upper(Or(order_type, "")) \o ":" \o ToString(source_order_id)

_dedup_key(exchange_type, account_id, symbol, side, order_type, source_order_id) ==
    Fmt(exchange_type) \o ":" \o ToString(account_id) \o ":" \o Fmt(symbol) \o ":"
        \o Fmt(side) \o ":" \o Upper(Or(order_type, "")) \o ":" \o ToString(source_order_id)

(***************************************************************************)
(* Target-account registry (binance_accounts, phemex_accounts)             *)
(***************************************************************************)
\* exchange_type of a binance_accounts row whose table has no such column
NoColumn == "<no column>"

B1 == [table |-> "binance_accounts", id |-> 1, api_key |-> "kB1", secret_key |-> "sB1", exchange_type |-> NoColumn]
U2 == [table |-> "binance_accounts", id |-> 2, api_key |-> "kU2", secret_key |-> "sU2", exchange_type |-> "bybit"]
P1 == [table |-> "phemex_accounts", id |-> 1, api_key |-> "kP1", secret_key |-> "sP1", exchange_type |-> "phemex"]

AccountPool == {B1, U2, P1}

\* a binance_accounts row whose credentials were saved blank (update_binance_account
\* stores what the edit form holds)
B3 == [table |-> "binance_accounts", id |-> 3, api_key |-> "", secret_key |-> "", exchange_type |-> NoColumn]

\* the rows of a set, newest first (ORDER BY created_at DESC; ids are AUTO_INCREMENT)
RECURSIVE NewestFirst(_)
NewestFirst(rows) ==
    IF rows = {} THEN <<>>
    ELSE LET r == CHOOSE x \in rows : \A y \in rows : y.id <= x.id
         IN  <<r>> \o NewestFirst(rows \ {r})

ActiveRows_All(reg, table) == {a \in DOMAIN reg : a.table = table}

ActiveRows(reg, table) == {a \in DOMAIN reg : a.table = table /\ reg[a] = "active"}

\* connectOk: Database.connect() succeeded
get_all_binance_accounts(reg, connectOk) ==
    IF ~connectOk THEN <<>> ELSE NewestFirst(ActiveRows(reg, "binance_accounts"))

get_all_phemex_accounts(reg, connectOk) ==
    IF ~connectOk THEN <<>> ELSE NewestFirst(ActiveRows(reg, "phemex_accounts"))

TagBinance_Untagged(a) == a

\* account['exchange_type'] = account.get('exchange_type', 'binance')
TagBinance(a) ==
    [a EXCEPT !.exchange_type = IF a.exchange_type = NoColumn THEN "binance" ELSE a.exchange_type]

\* account['exchange_type'] = 'phemex'
TagPhemex(a) == [a EXCEPT !.exchange_type = "phemex"]

\* a registry read that gives nothing unless both tables can be read
get_all_trading_accounts_AllOrNothing(reg, readEnv) ==
    IF readEnv.binance /\ readEnv.phemex
    THEN LET binance_accounts == get_all_binance_accounts(reg, TRUE)
             phemex_accounts == get_all_phemex_accounts(reg, TRUE)
         IN  [i \in 1..Len(binance_accounts) |-> TagBinance(binance_accounts[i])]
                 \o [i \in 1..Len(phemex_accounts) |-> TagPhemex(phemex_accounts[i])]
    ELSE <<>>

\* readEnv: [binance, phemex], whether the connect() of each read succeeds
get_all_trading_accounts(reg, readEnv) ==
    LET binance_accounts == get_all_binance_accounts(reg, readEnv.binance)
        phemex_accounts == get_all_phemex_accounts(reg, readEnv.phemex)
    IN  [i \in 1..Len(binance_accounts) |-> TagBinance(binance_accounts[i])]
            \o [i \in 1..Len(phemex_accounts) |-> TagPhemex(phemex_accounts[i])]

(***************************************************************************)
(* Source stream messages                                                  *)
(***************************************************************************)
Order1 == [i |-> 1, s |-> "BTCUSDT", S |-> "BUY", o |-> "MARKET", q |-> "0.01", p |-> "0", sp |-> "0", f |-> "GTC", R |-> FALSE]
Order2 == [i |-> 2, s |-> "BTCUSDT", S |-> "SELL", o |-> "LIMIT", q |-> "0.01", p |-> "100", sp |-> "0", f |-> "GTC", R |-> FALSE]
Order3 == [i |-> 3, s |-> "BTCUSDT", S |-> "SELL", o |-> "STOP_MARKET", q |-> "0.01", p |-> "0", sp |-> "100", f |-> "GTC", R |-> TRUE]

SourceOrders == {Order1, Order2, Order3}
Statuses == {"NEW", "FILLED", "CANCELED"}

OrderData(order, status) ==
    [i |-> order.i, s |-> order.s, S |-> order.S, o |-> order.o, q |-> order.q, p |-> order.p,
     sp |-> order.sp, f |-> order.f, R |-> order.R, X |-> status]

NoOrderData ==
    [i |-> 0, s |-> None, S |-> None, o |-> None, q |-> None, p |-> None,
     sp |-> None, f |-> None, R |-> FALSE, X |-> None]

Messages ==
    {[e |-> "ORDER_TRADE_UPDATE", o |-> OrderData(order, st)] : order \in SourceOrders, st \in Statuses}
        \cup {[e |-> "ACCOUNT_UPDATE", o |-> NoOrderData]}

(***************************************************************************)
(* Calls that leave the process, as recorded per pass.                      *)
(* Every entry: [op, api_key, params, ok].                                  *)
(***************************************************************************)
NoParams ==
    [symbol |-> None, side |-> None, type |-> None, quantity |-> None, price |-> None,
     stopPrice |-> None, timeInForce |-> None, reduceOnly |-> FALSE, leverage |-> 0,
     triggerPrice |-> None, triggerDirection |-> None, triggerType |-> None, posSide |-> None]

Call(op, api_key, params, ok) == [op |-> op, api_key |-> api_key, params |-> params, ok |-> ok]

\* what one adapter operation hands back: its return value, the calls it made, and,
\* when a venue accepted an order, that order
Ret(value, calls, placed) == [value |-> value, calls |-> calls, placed |-> placed]

(***************************************************************************)
(* BinanceClient                                                           *)
(***************************************************************************)
\* os.getenv('BINANCE_API_KEY') and os.getenv('BINANCE_SECRET') of the process
getenv_BINANCE_API_KEY == "kEnv"
getenv_BINANCE_SECRET == "sEnv"

\* BinanceClient.__init__ of a target (is_source False) when it does not raise: the
\* credentials the python-binance Client is built from
BinanceClient_init(api_key, secret_key) ==
    [api_key |-> Or(api_key, getenv_BINANCE_API_KEY),
     secret_key |-> Or(secret_key, getenv_BINANCE_SECRET)]

\* set_leverage: "response" | None (BinanceAPIException caught) | "raise" (any other exception)
BinanceClient_set_leverage(api_key, symbol, leverage, lev) ==
    LET call == Call("futures_change_leverage", api_key,
                     [NoParams EXCEPT !.symbol = symbol, !.leverage = leverage], lev = "ok")
    IN  Ret(CASE lev = "ok" -> "response"
              [] lev = "api_error" -> None
              [] OTHER -> "raise",
            <<call>>, <<>>)

\* the order_params place_order builds
BinanceOrderParams(symbol, side, order_type, quantity, price, stop_price, time_in_force, reduce_only) ==
    LET base ==
            IF order_type = "MARKET"
            THEN [NoParams EXCEPT !.symbol = symbol, !.side = side, !.type = order_type,
                                  !.quantity = quantity, !.reduceOnly = reduce_only]
            ELSE IF order_type \in {"LIMIT"}
            THEN [NoParams EXCEPT !.symbol = symbol, !.side = side, !.type = order_type,
                                  !.timeInForce = time_in_force]
            ELSE NoParams
    IN  [base EXCEPT !.quantity = IF Truthy(quantity) THEN quantity ELSE @,
                     !.price = IF Truthy(price) THEN price ELSE @,
                     !.stopPrice = IF Truthy(stop_price) THEN stop_price ELSE @,
                     !.reduceOnly = IF reduce_only THEN TRUE ELSE @]

\* place: "ok" (the venue accepts) | "reject" (futures_create_order raises)
BinanceClient_place_order(api_key, symbol, side, order_type, quantity, price, stop_price, time_in_force, reduce_only, place) ==
    LET order_params == BinanceOrderParams(symbol, side, order_type, quantity, price,
                                           stop_price, time_in_force, reduce_only)
        call == Call("futures_create_order", api_key, order_params, place = "ok")
    IN  IF place = "ok"
        THEN Ret("response", <<call>>, <<order_params>>)
        ELSE Ret(None, <<call>>, <<>>)

(***************************************************************************)
(* PhemexClient                                                            *)
(***************************************************************************)
\* Convert_to_ccxt_symbol: the symbols that end in 'USDT', with their base
\* the static translation tables of PhemexClient
convert_binance_to_phemex_time_in_force(binance_tif) ==
    CASE binance_tif = "GTC" -> "GoodTillCancel"
      [] binance_tif = "IOC" -> "ImmediateOrCancel"
      [] binance_tif = "FOK" -> "FillOrKill"
      [] binance_tif = "GTX" -> "PostOnly"
      [] OTHER -> binance_tif

convert_binance_to_phemex_order_type(binance_type) ==
    CASE binance_type = "MARKET" -> "Market"
      [] binance_type = "LIMIT" -> "Limit"
      [] binance_type = "STOP_MARKET" -> "Stop"
      [] binance_type = "STOP_LIMIT" -> "StopLimit"
      [] binance_type = "TAKE_PROFIT_MARKET" -> "MarketIfTouched"
      [] binance_type = "TAKE_PROFIT" -> "LimitIfTouched"
      [] binance_type = "TRAILING_STOP_MARKET" -> "Stop"
      [] OTHER -> binance_type

convert_binance_to_phemex_order_side(binance_side) ==
    CASE binance_side = "BUY" -> "Buy"
      [] binance_side = "SELL" -> "Sell"
      [] OTHER -> binance_side

quote == "USDT"

\* binance_symbol.endswith(quote)
EndsWithUSDT(symbol) ==
    /\ Len(symbol) >= Len(quote)
    /\ SubSeq(symbol, Len(symbol) - Len(quote) + 1, Len(symbol)) = quote

Convert_to_ccxt_symbol_Unconverted(binance_symbol) == binance_symbol

\* defined only when EndsWithUSDT(symbol); otherwise the code raises ValueError
Convert_to_ccxt_symbol(binance_symbol) ==
    SubSeq(binance_symbol, 1, Len(binance_symbol) - Len(quote)) \o "/" \o quote \o ":" \o quote

_convert_to_ccxt_order_type(binance_order_type) ==
    CASE binance_order_type = "MARKET" -> "market"
      [] binance_order_type = "LIMIT" -> "limit"
      [] binance_order_type = "STOP_MARKET" -> "stop"
      [] binance_order_type = "STOP_LIMIT" -> "stop_limit"
      [] binance_order_type = "TAKE_PROFIT_MARKET" -> "take_profit"
      [] binance_order_type = "TAKE_PROFIT" -> "take_profit_limit"
      [] binance_order_type = "TRAILING_STOP_MARKET" -> "trailing_stop"
      [] OTHER -> Lower(binance_order_type)

_convert_to_ccxt_time_in_force_Unmapped(binance_tif) == binance_tif

_convert_to_ccxt_time_in_force(binance_tif) ==
    CASE binance_tif = None -> None
      [] binance_tif = "GTC" -> "GTC"
      [] binance_tif = "IOC" -> "IOC"
      [] binance_tif = "FOK" -> "FOK"
      [] binance_tif = "GTX" -> "PO"
      [] OTHER -> binance_tif

\* PhemexClient.__init__: the credentials the ccxt client is built from
PhemexClient_init(api_key, api_secret) == [api_key |-> api_key, secret_key |-> api_secret]

\* set_leverage: TRUE | FALSE, every exception caught
PhemexClient_set_leverage(api_key, symbol, leverage, lev) ==
    IF symbol = None \/ ~EndsWithUSDT(symbol)
    THEN Ret(FALSE, <<>>, <<>>)
    ELSE Ret(lev = "ok",
             <<Call("ccxt.set_leverage", api_key,
                    [NoParams EXCEPT !.symbol = Convert_to_ccxt_symbol(symbol), !.leverage = leverage],
                    lev = "ok")>>,
             <<>>)

\* the create_order call of each conditional-order helper
create_stop_market_order(symbol, amount, stop_price) ==
    [NoParams EXCEPT !.symbol = symbol, !.type = "market", !.side = "sell", !.quantity = amount,
                     !.triggerPrice = Fmt(stop_price), !.triggerDirection = "descending",
                     !.triggerType = "ByMarkPrice", !.posSide = "Merged", !.reduceOnly = TRUE]

create_stop_short_order(symbol, amount, stop_price) ==
    [NoParams EXCEPT !.symbol = symbol, !.type = "market", !.side = "buy", !.quantity = amount,
                     !.triggerPrice = Fmt(stop_price), !.triggerDirection = "ascending",
                     !.triggerType = "ByMarkPrice", !.posSide = "Merged", !.reduceOnly = TRUE]

create_take_profit_market_order(symbol, amount, trigger_price) ==
    [NoParams EXCEPT !.symbol = symbol, !.type = "market", !.side = "sell", !.quantity = amount,
                     !.triggerPrice = Fmt(trigger_price), !.triggerDirection = "ascending",
                     !.triggerType = "ByMarkPrice", !.posSide = "Merged", !.reduceOnly = TRUE]

create_take_profit_short_order_Ascending(symbol, amount, trigger_price) ==
    create_stop_short_order(symbol, amount, trigger_price)

create_take_profit_short_order(symbol, amount, trigger_price) ==
    [NoParams EXCEPT !.symbol = symbol, !.type = "market", !.side = "buy", !.quantity = amount,
                     !.triggerPrice = Fmt(trigger_price), !.triggerDirection = "descending",
                     !.triggerType = "ByMarkPrice", !.posSide = "Merged", !.reduceOnly = TRUE]

\* The create_order call place_order_ccxt makes for its arguments: [raises, args], raises
\* when the code raises before the call (caught by place_order_ccxt itself).
PhemexOrderArgs(symbol, side, order_type, quantity, price, stop_price, time_in_force, reduce_only) ==
    LET phemex_symbol == Convert_to_ccxt_symbol(symbol)
        ccxt_type == _convert_to_ccxt_order_type(order_type)
        ccxt_side == Lower(side)
        Raise == [raises |-> TRUE, args |-> NoParams]
        Args(a) == [raises |-> FALSE, args |-> a]
        core == [NoParams EXCEPT !.symbol = phemex_symbol, !.side = ccxt_side, !.quantity = quantity]
        params == [core EXCEPT !.reduceOnly = reduce_only,
                               !.timeInForce = IF Truthy(time_in_force)
                                               THEN _convert_to_ccxt_time_in_force(time_in_force)
                                               ELSE None]
        Trigger(a, direction) ==
            [a EXCEPT !.type = "market", !.triggerPrice = Fmt(stop_price),
                      !.triggerDirection = direction, !.triggerType = "ByMarkPrice",
                      !.posSide = "Merged"]
    IN  CASE ccxt_type = "market" -> Args([core EXCEPT !.type = ccxt_type])
          [] ccxt_type = "limit" ->
                IF ~Truthy(price) \/ ~IsNumeric(price) THEN Raise
                ELSE Args([core EXCEPT !.type = "limit", !.price = price])
          [] order_type = "STOP_MARKET" ->
                \* create_stop_market_order / create_stop_short_order
                IF stop_price = None \/ ~IsNumeric(stop_price) THEN Raise
                ELSE IF ccxt_side = "sell"
                THEN Args(create_stop_market_order(phemex_symbol, quantity, stop_price))
                ELSE Args(create_stop_short_order(phemex_symbol, quantity, stop_price))
          [] ccxt_type = "stop" ->
                Args(Trigger(params, IF ccxt_side = "sell" THEN "descending" ELSE "ascending"))
          [] ccxt_type = "stop_limit" ->
                IF price = None \/ stop_price = None \/ ~IsNumeric(price) \/ ~IsNumeric(stop_price)
                THEN Raise
                ELSE Args([params EXCEPT !.type = "limit", !.price = price, !.stopPrice = stop_price])
          [] order_type = "TAKE_PROFIT_MARKET" ->
                \* create_take_profit_market_order / create_take_profit_short_order
                IF stop_price = None \/ ~IsNumeric(stop_price) THEN Raise
                ELSE IF ccxt_side = "sell"
                THEN Args(create_take_profit_market_order(phemex_symbol, quantity, stop_price))
                ELSE Args(create_take_profit_short_order(phemex_symbol, quantity, stop_price))
          [] OTHER ->
                IF Truthy(price) /\ ~IsNumeric(price) THEN Raise
                ELSE Args([params EXCEPT !.type = ccxt_type,
                                         !.price = IF Truthy(price) THEN price ELSE None])

\* place_order_ccxt: value is result['success']; every exception is caught and gives FALSE.
\* place: "ok" (the venue accepts) | "reject" (create_order raises)
PhemexClient_place_order_ccxt(api_key, symbol, side, order_type, quantity, price, stop_price, time_in_force, reduce_only, place) ==
    IF symbol = None \/ ~EndsWithUSDT(symbol) \/ order_type = None \/ side = None \/ ~IsNumeric(quantity)
    THEN Ret(FALSE, <<>>, <<>>)
    ELSE LET order == PhemexOrderArgs(symbol, side, order_type, quantity, price, stop_price,
                                      time_in_force, reduce_only)
             call == Call("ccxt.create_order", api_key, order.args, place = "ok")
         IN  IF order.raises THEN Ret(FALSE, <<>>, <<>>)
             ELSE IF place = "ok" THEN Ret(TRUE, <<call>>, <<order.args>>)
             ELSE Ret(FALSE, <<call>>, <<>>)

(***************************************************************************)
(* TradeLedger: Database.add_trade                                         *)
(***************************************************************************)
\* insertOk: connect() succeeded and the INSERT was executed.  The INSERT names the
\* column source_order_id, which the trades table of create_tables does not have: it
\* succeeds only on a trades table that has the column.  Every mysql Error is caught.
add_trade(tbl, row, insertOk) ==
    IF ~insertOk THEN tbl ELSE Append(tbl, row)

(***************************************************************************)
(* FanoutCoordinator: SourceAccountListener                                *)
(***************************************************************************)
_execute_binance_trade(api_key, symbol, side, order_type, quantity, price, stop_price, time_in_force, reduce_only, place) ==
    IF order_type = "MARKET"
    THEN BinanceClient_place_order(api_key, symbol, side, order_type, quantity, None, None,
                                   "GTC", FALSE, place)
    ELSE IF order_type = "LIMIT"
    THEN IF ~Truthy(price) \/ price = "0"
         THEN Ret(None, <<>>, <<>>)
         ELSE BinanceClient_place_order(api_key, symbol, side, order_type, quantity, price, None,
                                        time_in_force, FALSE, place)
    ELSE Ret(None, <<>>, <<>>)

_execute_phemex_trade(api_key, symbol, side, order_type, quantity, price, stop_price, time_in_force, place) ==
    LET result == PhemexClient_place_order_ccxt(api_key, symbol, side, order_type, quantity,
                      IF Truthy(price) /\ price # "0" THEN price ELSE None,
                      IF Truthy(stop_price) /\ stop_price # "0" THEN stop_price ELSE None,
                      time_in_force, FALSE, place)
    IN  IF result.value THEN Ret("response", result.calls, result.placed)
        ELSE Ret(None, result.calls, result.placed)

_execute_mirror_trade(api_key, exchange_type, symbol, side, order_type, quantity, price, stop_price, time_in_force, reduce_only, place) ==
    IF exchange_type = "binance"
    THEN _execute_binance_trade(api_key, symbol, side, order_type, quantity, price, stop_price,
                                time_in_force, reduce_only, place)
    ELSE IF exchange_type = "phemex"
    THEN _execute_phemex_trade(api_key, symbol, side, order_type, quantity, price, stop_price,
                               time_in_force, place)
    ELSE Ret(None, <<>>, <<>>)

\* the trades table after _log_trade_to_database; order_id is the venue's order id.
\* Database has no add_phemex_trade: the call raises AttributeError, which the
\* method's own except swallows, as it does a failing float().
_log_trade_to_database(tbl, account, exchange_type, symbol, side, order_type, quantity, price, stop_price, order_id, source_order_id, insertOk) ==
    IF exchange_type = "binance"
    THEN IF ~IsNumeric(quantity) THEN tbl
         ELSE IF Truthy(price) /\ price # "0" /\ ~IsNumeric(price) THEN tbl
         ELSE IF Truthy(stop_price) /\ stop_price # "0" /\ ~IsNumeric(stop_price) THEN tbl
         ELSE add_trade(tbl,
                        [account_id |-> account.id, symbol |-> symbol, side |-> side,
                         order_type |-> order_type, quantity |-> quantity,
                         price |-> IF Truthy(price) /\ price # "0" THEN price ELSE None,
                         stop_price |-> IF Truthy(stop_price) /\ stop_price # "0" THEN stop_price ELSE None,
                         order_id |-> order_id, status |-> "MIRRORED",
                         source_order_id |-> source_order_id],
                        insertOk)
    ELSE tbl

\* What the environment does to one target of a pass, along the calls the code makes:
\* ctor (client construction) "ok" | "raise"; lev (set_leverage) "ok" | "api_error" |
\* "network_error"; place (order submission) "ok" | "reject"; db (ledger INSERT) "ok" | "error".
\* "-" marks a call the code cannot reach after the earlier answer.
TargetEnvs ==
    {[ctor |-> "raise", lev |-> "-", place |-> "-", db |-> "-"],
     [ctor |-> "ok", lev |-> "ok", place |-> "reject", db |-> "-"],
     [ctor |-> "ok", lev |-> "ok", place |-> "ok", db |-> "ok"],
     [ctor |-> "ok", lev |-> "ok", place |-> "ok", db |-> "error"],
     [ctor |-> "ok", lev |-> "api_error", place |-> "ok", db |-> "ok"],
     [ctor |-> "ok", lev |-> "network_error", place |-> "ok", db |-> "ok"]}

NoCalls == [ctor |-> "-", lev |-> "-", place |-> "-", db |-> "-"]

\* the answers a target of a venue can get: a PhemexClient catches every exception of
\* set_leverage itself, and its ledger write never reaches the database
EnvsFor(account) ==
    IF account.exchange_type = "binance" THEN TargetEnvs
    ELSE IF account.exchange_type = "phemex"
    THEN {e \in TargetEnvs : e.lev # "network_error" /\ e.db # "error"}
    ELSE {NoCalls}

RECURSIVE EnvSeqs(_)
EnvSeqs(accounts) ==
    IF accounts = <<>> THEN {<<>>}
    ELSE {<<e>> \o rest : e \in EnvsFor(Head(accounts)), rest \in EnvSeqs(Tail(accounts))}

\* whether Database.connect() succeeds for the read of each venue's accounts
ReadEnvs == [binance : BOOLEAN, phemex : BOOLEAN]

\* the arguments handle_order_update extracts from the message's order data
OrderArgs(order_data) ==
    [symbol |-> order_data.s, side |-> order_data.S, order_type |-> order_data.o,
     quantity |-> order_data.q, price |-> order_data.p, stop_price |-> order_data.sp,
     status |-> order_data.X, source_order_id |-> order_data.i, leverage |-> 10,
     time_in_force |-> order_data.f, reduce_only |-> order_data.R]

\* the state one pass threads through its loop; aborted: an exception left the loop
PassStart(l, dedup, tbl, placed) ==
    [listener |-> l, dedup |-> dedup, trades |-> tbl, venueOrders |-> placed, results |-> <<>>,
     successful_mirrors |-> 0, failed_mirrors |-> 0, aborted |-> FALSE]

Result(account, key, outcome, calls) ==
    [account |-> <<account.table, account.id>>, key |-> key, outcome |-> outcome, calls |-> calls]

\* `if key in self._mirror_dedup` of the loop
DedupSeen_Never(dedup, key) == FALSE

DedupSeen(dedup, key) == key \in dedup

\* `if response: self._mirror_dedup.add(key)`
DedupAfter_Always(dedup, key, response) == dedup \cup {key}

DedupAfter_NeverMarks(dedup, key, response) == dedup

DedupAfter(dedup, key, response) == IF Truthy(response) THEN dedup \cup {key} ELSE dedup

\* the per-account `except Exception`: count the failure, go on with the next account
OnAccountError_Propagates(st, account, key, calls) ==
    [st EXCEPT !.results = Append(@, Result(account, key, "fault", calls)), !.aborted = TRUE]

OnAccountError_NotCounted(st, account, key, calls) ==
    [st EXCEPT !.results = Append(@, Result(account, key, "fault", calls))]

OnAccountError(st, account, key, calls) ==
    [st EXCEPT !.results = Append(@, Result(account, key, "fault", calls)),
               !.failed_mirrors = @ + 1]

\* target_client of the loop body, once its construction succeeded
target_client(account) ==
    IF account.exchange_type = "binance"
    THEN BinanceClient_init(account.api_key, account.secret_key)
    ELSE PhemexClient_init(account.api_key, account.secret_key)

\* the venue's record of an order it accepted, with the pass that placed it
Accepted(st, account, a, placed) ==
    [i \in 1..Len(placed) |->
        [by |-> st.listener, account |-> <<account.table, account.id>>,
         exchange_type |-> account.exchange_type, account_id |-> account.id,
         api_key |-> target_client(account).api_key, args |-> a,
         order_id |-> Len(st.venueOrders) + 1, order |-> placed[i]]]

OnResponse_LedgerFailureFails(st, account, env, a, key, calls, exec) ==
    IF Truthy(exec.value)
          /\ _log_trade_to_database(st.trades, account, account.exchange_type, a.symbol, a.side,
                 a.order_type, a.quantity, a.price, a.stop_price, Len(st.venueOrders) + 1,
                 a.source_order_id, env.db = "ok") # st.trades
    THEN [st EXCEPT !.dedup = DedupAfter(@, key, exec.value),
                    !.venueOrders = @ \o Accepted(st, account, a, exec.placed),
                    !.trades = _log_trade_to_database(@, account, account.exchange_type, a.symbol,
                                   a.side, a.order_type, a.quantity, a.price, a.stop_price,
                                   Len(st.venueOrders) + 1, a.source_order_id, env.db = "ok"),
                    !.results = Append(@, Result(account, key, "mirrored", calls)),
                    !.successful_mirrors = @ + 1]
    ELSE [st EXCEPT !.venueOrders = @ \o Accepted(st, account, a, exec.placed),
                    !.results = Append(@, Result(account, key, "failed", calls)),
                    !.failed_mirrors = @ + 1]

\* `if response: ... else: ...` after _execute_mirror_trade; exec: what it handed back
OnResponse(st, account, env, a, key, calls, exec) ==
    IF Truthy(exec.value)
    THEN [st EXCEPT !.dedup = DedupAfter(@, key, exec.value),
                    !.venueOrders = @ \o Accepted(st, account, a, exec.placed),
                    !.trades = _log_trade_to_database(@, account, account.exchange_type, a.symbol,
                                   a.side, a.order_type, a.quantity, a.price, a.stop_price,
                                   Len(st.venueOrders) + 1, a.source_order_id, env.db = "ok"),
                    !.results = Append(@, Result(account, key, "mirrored", calls)),
                    !.successful_mirrors = @ + 1]
    ELSE [st EXCEPT !.dedup = DedupAfter(@, key, exec.value),
                    !.venueOrders = @ \o Accepted(st, account, a, exec.placed),
                    !.results = Append(@, Result(account, key, "failed", calls)),
                    !.failed_mirrors = @ + 1]

\* the client construction of the loop body
ClientCall(account, env) ==
    Call(IF account.exchange_type = "binance" THEN "BinanceClient" ELSE "PhemexClient",
         account.api_key, NoParams, env.ctor = "ok")

\* `Set leverage first (best effort)`: whatever set_leverage returns or raises is dropped
SetLeverage(account, a, env) ==
    IF account.exchange_type = "binance"
    THEN BinanceClient_set_leverage(target_client(account).api_key, a.symbol, a.leverage, env.lev)
    ELSE PhemexClient_set_leverage(target_client(account).api_key, a.symbol, 10, env.lev)

MirrorWithClient_LeverageAborts(st, account, env, a, key, lev, exec) ==
    IF \E i \in 1..Len(lev.calls) : ~lev.calls[i].ok
    THEN OnAccountError(st, account, key, <<ClientCall(account, env)>> \o lev.calls)
    ELSE OnResponse(st, account, env, a, key, <<ClientCall(account, env)>> \o lev.calls \o exec.calls, exec)

MirrorWithClient_RetryOnce(st, account, env, a, key, lev, exec) ==
    OnResponse(st, account, env, a, key,
               <<ClientCall(account, env)>> \o lev.calls \o exec.calls
                   \o (IF Truthy(exec.value) THEN <<>> ELSE exec.calls),
               exec)

\* the loop body from the client construction on
MirrorWithClient(st, account, env, a, key, lev, exec) ==
    OnResponse(st, account, env, a, key, <<ClientCall(account, env)>> \o lev.calls \o exec.calls, exec)

\* the loop body after the key is computed
MirrorWithKey(st, account, env, a, key) ==
    IF DedupSeen(st.dedup, key)
    THEN [st EXCEPT !.results = Append(@, Result(account, key, "skipped", <<>>))]
    ELSE IF account.exchange_type \notin {"binance", "phemex"}
    THEN [st EXCEPT !.results = Append(@, Result(account, key, "unsupported", <<>>)),
                    !.failed_mirrors = @ + 1]
    ELSE IF env.ctor # "ok"
    THEN OnAccountError(st, account, key, <<ClientCall(account, env)>>)
    ELSE MirrorWithClient(st, account, env, a, key, SetLeverage(account, a, env),
             _execute_mirror_trade(target_client(account).api_key, account.exchange_type, a.symbol, a.side,
                                   a.order_type, a.quantity, a.price, a.stop_price,
                                   a.time_in_force, a.reduce_only, env.place))

\* the body of the for loop of process_order_update, for one account; a: OrderArgs
MirrorToTarget(st, account, env, a) ==
    MirrorWithKey(st, account, env, a,
                  _dedup_key(account.exchange_type, account.id, a.symbol, a.side, a.order_type,
                             a.source_order_id))

\* for account in all_accounts, from the i-th account on
RECURSIVE FanoutLoop(_, _, _, _, _)
FanoutLoop(st, all_accounts, envs, i, a) ==
    IF i > Len(all_accounts) \/ st.aborted THEN st
    ELSE FanoutLoop(MirrorToTarget(st, all_accounts[i], envs[i], a), all_accounts, envs, i + 1, a)

\* what one call of process_order_update leaves behind: the pass state, whether the
\* registry was read and what it returned, whether the summary was logged
PassEnd(st, registryRead, all_accounts, summary) ==
    [st |-> st, registryRead |-> registryRead, all_accounts |-> all_accounts, summary |-> summary]

\* the loop and the summary
FanoutEnd(end, all_accounts) == PassEnd(end, TRUE, all_accounts, ~end.aborted)

\* process_order_update after the registry read
Fanout(st, all_accounts, envs, a) ==
    IF Len(all_accounts) = 0
    THEN PassEnd(st, TRUE, all_accounts, FALSE)
    ELSE FanoutEnd(FanoutLoop(st, all_accounts, envs, 1, a), all_accounts)

process_order_update(st, reg, readEnv, envs, a) ==
    IF ~_should_mirror_event(a.order_type, a.status)
    THEN PassEnd(st, FALSE, <<>>, FALSE)
    ELSE Fanout(st, get_all_trading_accounts(reg, readEnv), envs, a)

\* a is OrderArgs(order_data)
HandleArgs(st, reg, readEnv, envs, a) ==
    IF ~_should_mirror_event(a.order_type, a.status)
    THEN PassEnd(st, FALSE, <<>>, FALSE)
    ELSE process_order_update(st, reg, readEnv, envs, a)

handle_order_update(st, reg, readEnv, envs, order_data) ==
    HandleArgs(st, reg, readEnv, envs, OrderArgs(order_data))

handle_socket_message(st, reg, readEnv, envs, msg) ==
    IF msg.e = "ORDER_TRADE_UPDATE"
    THEN handle_order_update(st, reg, readEnv, envs, msg.o)
    ELSE PassEnd(st, FALSE, <<>>, FALSE)

(***************************************************************************)
(* State machine                                                           *)
(***************************************************************************)
NoPass ==
    [listener |-> 0, msg |-> [e |-> "none", o |-> NoOrderData], policy |-> FALSE,
     registryRead |-> FALSE, all_accounts |-> <<>>, envs |-> <<>>, results |-> <<>>,
     successful_mirrors |-> 0, failed_mirrors |-> 0, summary |-> FALSE,
     dedupBefore |-> {}, failedBefore |-> {}, venueBefore |-> 0, tradesBefore |-> 0]

\* no operation called on its own
NoDirectCall == [op |-> "none"]
NoReturn == [done |-> FALSE]

\* no handle_socket_message call in progress
NoCurrent == [pos |-> 0]

\* SourceAccountListener.__init__
\* alive: the KeepAliveThread of start_listening, "none" | "running" | "ended"
\* renewed_key: the listenKey of the last futures_stream_keepalive request, NoRenewal
\* before the first one
NoRenewal == "<no renewal>"

NewListener ==
    [_mirror_dedup |-> {}, twm |-> "none", listen_key |-> None, alive |-> "none",
     renewed_key |-> NoRenewal]

\* CopyTradingBot.__init__, with the target accounts the database holds
Init ==
    /\ registry \in [AccountPool -> {"absent", "active"}]
    /\ bot = [source_listener |-> 0, is_running |-> FALSE]
    /\ listeners = <<>>
    /\ venueOrders = <<>>
    /\ trades = <<>>
    /\ failedKeys = <<>>
    /\ delivered = 0
    /\ lastPass = NoPass
    /\ polIn = <<None, None>>
    /\ polDone = FALSE
    /\ polOut = FALSE
    /\ callIn = NoDirectCall
    /\ callOut = NoReturn
    /\ stream = <<>>
    /\ current = NoCurrent

\* what a call of start_bot or stop_bot gave its caller: value is the returned value, or
\* the exception's name when raised
Outcome(op, raised, value) == [done |-> TRUE, out |-> [op |-> op, raised |-> raised, value |-> value]]

\* start_bot building its listener before the two checks
start_bot_ListenerFirst(env) ==
    /\ Len(listeners) < MaxListeners
    /\ listeners' = Append(listeners, NewListener)
    /\ failedKeys' = Append(failedKeys, {})
    /\ bot' = [source_listener |-> Len(listeners) + 1, is_running |-> env = "ok"]
    /\ callOut' = Outcome("start_bot", FALSE, IF env = "ok" THEN "True" ELSE "False")
    /\ UNCHANGED <<registry, venueOrders, trades, delivered, lastPass, polIn, polDone, polOut,
                   callIn, stream, current>>

\* CopyTradingBot.start_bot; env: "ok" | "db_fail" (initialize_database fails) |
\* "conn_fail" (test_source_connection fails)
start_bot(env) ==
    /\ Len(listeners) < MaxListeners
    /\ IF env = "ok"
       THEN /\ listeners' = Append(listeners, NewListener)
            /\ failedKeys' = Append(failedKeys, {})
            /\ bot' = [source_listener |-> Len(listeners) + 1, is_running |-> TRUE]
            /\ callOut' = Outcome("start_bot", FALSE, "True")
       ELSE /\ UNCHANGED <<listeners, failedKeys, bot>>
            /\ callOut' = Outcome("start_bot", FALSE, "False")
    /\ UNCHANGED <<registry, venueOrders, trades, delivered, lastPass, polIn, polDone, polOut,
                   callIn, stream, current>>

\* the listener thread: SourceAccountListener.start_listening subscribes the user socket
start_listening(l) ==
    /\ l \in 1..Len(listeners)
    /\ listeners[l].twm = "none"
    /\ listeners' = [listeners EXCEPT ![l].twm = "running", ![l].alive = "running"]
    /\ UNCHANGED <<registry, bot, venueOrders, trades, failedKeys, delivered,
                   lastPass, polIn, polDone, polOut,
                   callIn, callOut, stream, current>>

\* CopyTradingBot.stop_bot: SourceAccountListener has no attribute ws, so with a
\* listener present the attribute access raises before anything is stopped
stop_bot ==
    /\ bot' = [bot EXCEPT !.is_running = FALSE]
    /\ callOut' = IF bot.source_listener # 0
                  THEN Outcome("stop_bot", TRUE, "AttributeError")
                  ELSE Outcome("stop_bot", FALSE, "None")
    /\ UNCHANGED <<registry, listeners, venueOrders, trades, failedKeys, delivered,
                   lastPass, polIn, polDone, polOut,
                   callIn, stream, current>>

FailedOutcomes == {"failed", "fault", "unsupported"}

Mirrorable(msg) == msg.e = "ORDER_TRADE_UPDATE" /\ _should_mirror_event(msg.o.o, msg.o.X)

FailedNow(results) ==
    {results[i].key : i \in {j \in 1..Len(results) : results[j].outcome \in FailedOutcomes}}

\* the state after the handler returned; end: what handle_socket_message left behind
AfterPass(l, msg, envs, end) ==
    /\ listeners' = [listeners EXCEPT ![l]._mirror_dedup = end.st.dedup]
    /\ trades' = end.st.trades
    /\ venueOrders' = end.st.venueOrders
    /\ failedKeys' = [failedKeys EXCEPT ![l] = @ \cup FailedNow(end.st.results)]
    /\ lastPass' =
           [listener |-> l, msg |-> msg, policy |-> Mirrorable(msg),
            registryRead |-> end.registryRead, all_accounts |-> end.all_accounts,
            envs |-> envs, results |-> end.st.results,
            successful_mirrors |-> end.st.successful_mirrors,
            failed_mirrors |-> end.st.failed_mirrors, summary |-> end.summary,
            dedupBefore |-> listeners[l]._mirror_dedup, failedBefore |-> failedKeys[l],
            venueBefore |-> Len(venueOrders), tradesBefore |-> Len(trades)]

\* the stream hands msg to listener l: SourceAccountListener.handle_socket_message
Deliver(l, msg, readEnv, envs) ==
    /\ delivered < MaxDeliveries
    /\ l \in 1..Len(listeners)
    /\ listeners[l].twm = "running"
    /\ \E end \in {handle_socket_message(
                      PassStart(l, listeners[l]._mirror_dedup, trades, venueOrders),
                      registry, readEnv, envs, msg)} :
          AfterPass(l, msg, envs, end)
    /\ delivered' = delivered + 1
    /\ UNCHANGED <<registry, bot, polIn, polDone, polOut,
                   callIn, callOut, stream, current>>

AllOk == [binance |-> TRUE, phemex |-> TRUE]

\* every message, with every answer the environment can give along the pass
DeliverAny ==
    \E l \in 1..MaxListeners, msg \in Messages :
        \E readEnv \in IF Mirrorable(msg) THEN ReadEnvs ELSE {AllOk} :
            \E envs \in IF Mirrorable(msg)
                        THEN EnvSeqs(get_all_trading_accounts(registry, readEnv))
                        ELSE {<<>>} :
                Deliver(l, msg, readEnv, envs)

Next ==
    \/ \E env \in {"ok", "db_fail", "conn_fail"} : start_bot(env)
    \/ \E l \in 1..MaxListeners : start_listening(l)
    \/ stop_bot
    \/ DeliverAny

Spec == Init /\ [][Next]_vars


(***************************************************************************)
(* _should_mirror_event on its own, over the values an event can carry     *)
(***************************************************************************)
TypeTokens ==
    {"MARKET", "market", "Market", "LIMIT", "limit", "STOP", "STOP_MARKET", "stop_market",
     "Stop_Market", "TAKE_PROFIT_MARKET", "take_profit_market", "TAKE_PROFIT",
     "TRAILING_STOP_MARKET", "FOO", "", None}

StatusTokens ==
    {"NEW", "new", "New", "FILLED", "filled", "PARTIALLY_FILLED", "CANCELED", "canceled",
     "EXPIRED", "FOO", "", None}

InitPolicy ==
    /\ registry = [a \in AccountPool |-> "active"]
    /\ bot = [source_listener |-> 0, is_running |-> FALSE]
    /\ listeners = <<>>
    /\ venueOrders = <<>>
    /\ trades = <<>>
    /\ failedKeys = <<>>
    /\ delivered = 0
    /\ lastPass = NoPass
    /\ polIn \in TypeTokens \X StatusTokens
    /\ polDone = FALSE
    /\ polOut = FALSE
    /\ callIn = NoDirectCall
    /\ callOut = NoReturn
    /\ stream = <<>>
    /\ current = NoCurrent

EvalPolicy ==
    /\ ~polDone
    /\ polDone' = TRUE
    /\ polOut' = _should_mirror_event(polIn[1], polIn[2])
    /\ UNCHANGED <<registry, bot, listeners, venueOrders, trades, failedKeys, delivered,
                   lastPass, polIn, callIn, callOut, stream, current>>

NextPolicy == EvalPolicy

SpecPolicy == InitPolicy /\ [][NextPolicy]_vars


(***************************************************************************)
(* The registry changing under a subscribed listener                       *)
(***************************************************************************)
\* one listener, constructed by start_bot and subscribed by start_listening
RunningListener == [NewListener EXCEPT !.twm = "running", !.alive = "running"]

InitRegistry ==
    /\ registry \in [AccountPool -> {"absent", "active"}]
    /\ bot = [source_listener |-> 1, is_running |-> TRUE]
    /\ listeners = <<RunningListener>>
    /\ venueOrders = <<>>
    /\ trades = <<>>
    /\ failedKeys = <<{}>>
    /\ delivered = 0
    /\ lastPass = NoPass
    /\ polIn = <<None, None>>
    /\ polDone = FALSE
    /\ polOut = FALSE
    /\ callIn = NoDirectCall
    /\ callOut = NoReturn
    /\ stream = <<>>
    /\ current = NoCurrent

\* add_binance_account / add_phemex_account: the row appears
AddAccount(a) ==
    /\ registry[a] = "absent"
    /\ registry' = [registry EXCEPT ![a] = "active"]
    /\ UNCHANGED <<bot, listeners, venueOrders, trades, failedKeys, delivered,
                   lastPass, polIn, polDone, polOut,
                   callIn, callOut, stream, current>>

\* delete_account / delete_phemex_account: the row is gone, its AUTO_INCREMENT id is
\* not given out again
DeleteAccount(a) ==
    /\ registry[a] = "active"
    /\ registry' = [registry EXCEPT ![a] = "deleted"]
    /\ UNCHANGED <<bot, listeners, venueOrders, trades, failedKeys, delivered,
                   lastPass, polIn, polDone, polOut,
                   callIn, callOut, stream, current>>

\* every call of a pass answered without error
OkEnv == [ctor |-> "ok", lev |-> "ok", place |-> "ok", db |-> "ok"]

OkEnvs(accounts) ==
    [i \in 1..Len(accounts) |->
        IF accounts[i].exchange_type \in {"binance", "phemex"} THEN OkEnv ELSE NoCalls]

\* a mirrorable event reaches the listener, every venue and the database answering
DeliverFresh ==
    \E msg \in {m \in Messages : Mirrorable(m)} :
        Deliver(1, msg, AllOk, OkEnvs(get_all_trading_accounts(registry, AllOk)))

NextRegistry ==
    \/ \E a \in AccountPool : AddAccount(a)
    \/ \E a \in AccountPool : DeleteAccount(a)
    \/ DeliverFresh

SpecRegistry == InitRegistry /\ [][NextRegistry]_vars

(***************************************************************************)
(* Events of every order type and price under a subscribed listener        *)
(***************************************************************************)
LimitIOC == [Order2 EXCEPT !.i = 11, !.S = "BUY", !.p = "100.5", !.f = "IOC"]
LimitGTX == [Order2 EXCEPT !.i = 12, !.f = "GTX"]
LimitNoPrice == [Order2 EXCEPT !.i = 13, !.p = None]
LimitEmptyPrice == [Order2 EXCEPT !.i = 14, !.p = ""]
LimitZero == [Order2 EXCEPT !.i = 15, !.p = "0"]
LimitZero00 == [Order2 EXCEPT !.i = 16, !.p = "0.00"]
Trailing == [Order1 EXCEPT !.i = 17, !.S = "SELL", !.o = "TRAILING_STOP_MARKET"]
Unknown == [Order1 EXCEPT !.i = 18, !.o = "FOO"]

WideOrders ==
    {Order1, Order2, LimitIOC, LimitGTX, LimitNoPrice, LimitEmptyPrice, LimitZero, LimitZero00,
     Trailing, Unknown}

\* one binance and one phemex account registered
InitOrders ==
    /\ registry = [a \in AccountPool |-> IF a \in {B1, P1} THEN "active" ELSE "absent"]
    /\ bot = [source_listener |-> 1, is_running |-> TRUE]
    /\ listeners = <<RunningListener>>
    /\ venueOrders = <<>>
    /\ trades = <<>>
    /\ failedKeys = <<{}>>
    /\ delivered = 0
    /\ lastPass = NoPass
    /\ polIn = <<None, None>>
    /\ polDone = FALSE
    /\ polOut = FALSE
    /\ callIn = NoDirectCall
    /\ callOut = NoReturn
    /\ stream = <<>>
    /\ current = NoCurrent

\* the venue accepts or rejects what it is sent; everything else answers without error
PlaceEnvs(accounts) ==
    {envs \in EnvSeqs(accounts) :
        \A i \in 1..Len(envs) : envs[i].ctor = "ok" /\ envs[i].lev = "ok" /\ envs[i].db # "error"}

\* a NEW event of any of the orders reaches the listener
DeliverOrder ==
    \E order \in WideOrders :
        \E envs \in PlaceEnvs(get_all_trading_accounts(registry, AllOk)) :
            Deliver(1, [e |-> "ORDER_TRADE_UPDATE", o |-> OrderData(order, "NEW")], AllOk, envs)

NextOrders == DeliverOrder

SpecOrders == InitOrders /\ [][NextOrders]_vars

(***************************************************************************)
(* Starting, stopping and keeping alive, every venue answering             *)
(***************************************************************************)
\* one round of the keep_alive loop of start_listening, 15 minutes after the last:
\* renewed is what keep_alive_user_stream(self.listen_key) returns
KeepAlive(l, renewed) ==
    /\ l \in 1..Len(listeners)
    /\ listeners[l].alive = "running"
    /\ listeners' = [listeners EXCEPT ![l].alive = IF renewed THEN "running" ELSE "ended",
                                      ![l].renewed_key = listeners[l].listen_key]
    /\ UNCHANGED <<registry, bot, venueOrders, trades, failedKeys, delivered,
                   lastPass, polIn, polDone, polOut,
                   callIn, callOut, stream, current>>

\* a mirrorable event reaches a subscribed listener
DeliverToAny ==
    \E l \in 1..MaxListeners, msg \in {m \in Messages : Mirrorable(m)} :
        Deliver(l, msg, AllOk, OkEnvs(get_all_trading_accounts(registry, AllOk)))

\* a mirrorable event reaches a subscribed listener while one of the two tables
\* cannot be read
OneSided == {readEnv \in ReadEnvs : readEnv.binance # readEnv.phemex}

DeliverPartialRead ==
    \E l \in 1..MaxListeners, msg \in {m \in Messages : Mirrorable(m)}, readEnv \in OneSided :
        Deliver(l, msg, readEnv, OkEnvs(get_all_trading_accounts(registry, readEnv)))

NextLifecycle ==
    \/ \E env \in {"ok", "db_fail", "conn_fail"} : start_bot(env)
    \/ \E l \in 1..MaxListeners : start_listening(l)
    \/ stop_bot
    \/ \E l \in 1..MaxListeners, renewed \in BOOLEAN : KeepAlive(l, renewed)
    \/ DeliverToAny
    \/ DeliverPartialRead

SpecLifecycle == Init /\ [][NextLifecycle]_vars

(***************************************************************************)
(* Properties                                                              *)
(***************************************************************************)
Targets == {<<a.table, a.id>> : a \in AccountPool}

\* the venue orders placed for a source order on a target account by one listener
PlacedBy(l, target, source_order_id) ==
    {i \in 1..Len(venueOrders) :
        /\ venueOrders[i].by = l
        /\ venueOrders[i].account = target
        /\ venueOrders[i].args.source_order_id = source_order_id}

\* the venue orders placed for a source order on a target account by any listener
PlacedAll(target, source_order_id) ==
    {i \in 1..Len(venueOrders) :
        /\ venueOrders[i].account = target
        /\ venueOrders[i].args.source_order_id = source_order_id}

\* the MirrorKey of an order a venue accepted
KeyOfPlaced(v) ==
    _dedup_key(v.exchange_type, v.account_id, v.args.symbol, v.args.side, v.args.order_type,
               v.args.source_order_id)

\* the positions of a pass's results with one of the given outcomes
ResultsWith(outcomes) ==
    {i \in 1..Len(lastPass.results) : lastPass.results[i].outcome \in outcomes}

C2_AtMostOncePerProcess ==
    \A target \in Targets, order \in SourceOrders :
        Cardinality(PlacedAll(target, order.i)) <= 1

\* C3: a key is in a listener's _mirror_dedup exactly when that listener placed an
\* order for that key which the venue accepted.
C3_DedupIffPlaced ==
    \A l \in 1..Len(listeners) :
        listeners[l]._mirror_dedup =
            {KeyOfPlaced(venueOrders[i]) : i \in {j \in 1..Len(venueOrders) : venueOrders[j].by = l}}

\* C3 witness: one pass in which a target succeeded and its key was inserted, while
\* another target failed or faulted and its key was not.
C3_Witness ==
    /\ lastPass.listener # 0
    /\ \E i \in ResultsWith({"mirrored"}), j \in ResultsWith({"failed", "fault"}) :
          /\ lastPass.results[i].key \in listeners[lastPass.listener]._mirror_dedup
          /\ lastPass.results[j].key \notin listeners[lastPass.listener]._mirror_dedup

\* an order type or status that reads as the given upper-case word, whatever its case
Reads(x, word) == x # None /\ Upper(x) = word

Rejected(msg) ==
    \/ msg.o.X # "NEW"
    \/ msg.o.o \in {"STOP_MARKET", "TAKE_PROFIT_MARKET"}

Solo(i) ==
    MirrorToTarget(PassStart(lastPass.listener, lastPass.dedupBefore, <<>>, <<>>),
                   lastPass.all_accounts[i], lastPass.envs[i], OrderArgs(lastPass.msg.o)).results[1]

\* C6: in a pass that read the registry, every account read gets its own attempt, whatever
\* happened to the accounts before it, and its outcome and calls are those it gets alone.
C6_Isolation ==
    (lastPass.listener # 0 /\ lastPass.registryRead) =>
        /\ Len(lastPass.results) = Len(lastPass.all_accounts)
        /\ \A i \in 1..Len(lastPass.results) : lastPass.results[i] = Solo(i)

\* C6 witness: in one pass an earlier target faulted or failed and a later one was mirrored.
C6_Witness ==
    /\ lastPass.listener # 0
    /\ \E i \in ResultsWith({"fault", "failed"}), j \in ResultsWith({"mirrored"}) : i < j

\* the keys of the orders the venues had accepted from the last pass's listener before it
PlacedBefore ==
    {KeyOfPlaced(venueOrders[i]) :
        i \in {j \in 1..lastPass.venueBefore : venueOrders[j].by = lastPass.listener}}

\* C7: on a redelivery, a target whose earlier mirror of the event failed and never
\* succeeded is attempted again (not skipped), and a target whose mirror of the event
\* had succeeded is skipped.
C7_RetryFailedSkipSucceeded ==
    lastPass.listener # 0 =>
        \A i \in 1..Len(lastPass.results) :
            /\ (lastPass.results[i].key \in lastPass.failedBefore \ PlacedBefore)
                   => lastPass.results[i].outcome # "skipped"
            /\ (lastPass.results[i].key \in PlacedBefore)
                   => lastPass.results[i].outcome = "skipped"

\* C7 witness: a redelivered NEW event was placed on a target that had failed before,
\* while a target that had succeeded before was skipped.
C7_Witness ==
    /\ lastPass.listener # 0
    /\ \E i \in ResultsWith({"mirrored"}), j \in ResultsWith({"skipped"}) :
          /\ lastPass.results[i].key \in lastPass.failedBefore
          /\ lastPass.results[j].key \in PlacedBefore

\* the ledger records of a source order for a target account id
LedgerRows(account_id, source_order_id) ==
    {k \in 1..Len(trades) :
        trades[k].account_id = account_id /\ trades[k].source_order_id = source_order_id}

\* C8: once an event has come again for a target it was mirrored to (the target is
\* skipped as a duplicate), the ledger holds exactly one record for that target and
\* source order.
C8_ExactlyOneRecord ==
    lastPass.listener # 0 =>
        \A i \in ResultsWith({"skipped"}) :
            Cardinality(LedgerRows(lastPass.results[i].account[2], lastPass.msg.o.i)) = 1

\* C9: every order a venue accepted has a ledger record with the target account id, the
\* source order id and status MIRRORED, and every ledger record belongs to an accepted order.
C9_RecordIffPlaced ==
    /\ \A i \in 1..Len(venueOrders) :
          \E k \in LedgerRows(venueOrders[i].account_id, venueOrders[i].args.source_order_id) :
              trades[k].status = "MIRRORED"
    /\ \A k \in 1..Len(trades) :
          \E i \in 1..Len(venueOrders) :
              /\ venueOrders[i].account_id = trades[k].account_id
              /\ venueOrders[i].args.source_order_id = trades[k].source_order_id

\* C10: when a pass reaches the summary, successful is the number of targets whose order
\* the venue accepted in this pass, failed is the number of targets that failed or
\* faulted, and successful + failed + skipped is the number of accounts read.
C10_SummaryCounts ==
    (lastPass.listener # 0 /\ lastPass.summary) =>
        /\ lastPass.successful_mirrors = Len(venueOrders) - lastPass.venueBefore
        /\ lastPass.successful_mirrors = Cardinality(ResultsWith({"mirrored"}))
        /\ lastPass.failed_mirrors = Cardinality(ResultsWith(FailedOutcomes))
        /\ lastPass.successful_mirrors + lastPass.failed_mirrors
               + Cardinality(ResultsWith({"skipped"})) = Len(lastPass.all_accounts)

\* C10 witness: the first target's client construction threw and the second target was
\* mirrored: the summary reports 1 successful and 1 failed.
C10_Witness ==
    /\ lastPass.listener # 0
    /\ lastPass.summary
    /\ Len(lastPass.results) = 2
    /\ lastPass.results[1].outcome = "fault"
    /\ lastPass.results[2].outcome = "mirrored"
    /\ lastPass.successful_mirrors = 1
    /\ lastPass.failed_mirrors = 1


LevOps == {"futures_change_leverage", "ccxt.set_leverage"}

PlaceOps == {"futures_create_order", "ccxt.create_order"}

\* C11: for every target whose client was constructed, set_leverage is called before the
\* order is submitted, and the order is submitted whether set_leverage succeeded, returned
\* an error or raised.
C11_LeverageBestEffort ==
    lastPass.listener # 0 =>
        \A i \in 1..Len(lastPass.results) :
            (lastPass.results[i].calls # <<>> /\ lastPass.results[i].calls[1].ok) =>
                /\ Len(lastPass.results[i].calls) = 3
                /\ lastPass.results[i].calls[2].op \in LevOps
                /\ lastPass.results[i].calls[3].op \in PlaceOps

\* C11 witness: set_leverage raised for one target and returned an error for another,
\* and both got their order placed.
C11_Witness ==
    /\ lastPass.listener # 0
    /\ \E i, j \in ResultsWith({"mirrored"}) :
          /\ lastPass.envs[i].lev = "network_error"
          /\ lastPass.envs[j].lev = "api_error"
          /\ ~lastPass.results[i].calls[2].ok
          /\ ~lastPass.results[j].calls[2].ok


\* the j-th venue order has no ledger record written in the last pass
Unrecorded(j) ==
    \A k \in (lastPass.tradesBefore + 1)..Len(trades) : trades[k].order_id # venueOrders[j].order_id

\* C12: a target whose order the venue accepted in a pass but whose ledger record was not
\* written is still reported mirrored and counted successful, its key is in the dedup
\* set, and every account of the pass got its result.
C12_LedgerFailureKeepsSuccess ==
    lastPass.listener # 0 =>
        \A j \in (lastPass.venueBefore + 1)..Len(venueOrders) :
            Unrecorded(j) =>
                /\ KeyOfPlaced(venueOrders[j]) \in listeners[lastPass.listener]._mirror_dedup
                /\ \E i \in ResultsWith({"mirrored"}) :
                      lastPass.results[i].account = venueOrders[j].account
                /\ lastPass.successful_mirrors = Len(venueOrders) - lastPass.venueBefore
                /\ Len(lastPass.results) = Len(lastPass.all_accounts)

\* C12 witness: the INSERT for a target's accepted order failed, the target was counted
\* successful, and a later target of the pass was mirrored too.
C12_Witness ==
    /\ lastPass.listener # 0
    /\ Len(venueOrders) = lastPass.venueBefore + 2
    /\ Unrecorded(lastPass.venueBefore + 1)
    /\ lastPass.successful_mirrors = 2
    /\ \E i, j \in ResultsWith({"mirrored"}) : i < j /\ lastPass.envs[i].db = "error"


\* the accounts the registry holds
Registered == {a \in AccountPool : registry[a] = "active"}

TargetsOf(accounts) == {<<accounts[i].table, accounts[i].id>> : i \in 1..Len(accounts)}

\* C14: the accounts of each pass for a mirrorable event are exactly the accounts
\* registered when the event is processed; every one of them gets its result, and every
\* order placed in the pass is placed on one of them.
C14_FreshRegistryRead ==
    [][(delivered' = delivered + 1 /\ Mirrorable(lastPass'.msg)) =>
          /\ TargetsOf(lastPass'.all_accounts) = {<<a.table, a.id>> : a \in Registered}
          /\ Len(lastPass'.all_accounts) = Cardinality(Registered)
          /\ Len(lastPass'.results) = Cardinality(Registered)
          /\ \A j \in (Len(venueOrders) + 1)..Len(venueOrders') :
                venueOrders'[j].account \in {<<a.table, a.id>> : a \in Registered}]_vars

\* C14 witness: between two events the binance account was removed and the phemex account
\* added: the first order went to the binance account only, the second to the phemex
\* account only.
C14_Witness ==
    /\ delivered = 2
    /\ registry[B1] = "deleted"
    /\ PlacedAll(<<B1.table, B1.id>>, 1) # {}
    /\ PlacedAll(<<B1.table, B1.id>>, 2) = {}
    /\ PlacedAll(<<P1.table, P1.id>>, 1) = {}
    /\ PlacedAll(<<P1.table, P1.id>>, 2) # {}
    /\ TargetsOf(lastPass.all_accounts) = {<<P1.table, P1.id>>}


\* the order submissions among the calls made for the i-th account of the last pass
PlaceCalls(i) ==
    {c \in 1..Len(lastPass.results[i].calls) : lastPass.results[i].calls[c].op \in PlaceOps}

\* C15: in one delivery every target account has one result and at most one order
\* submission, and the orders accepted for a (target, source order) pair never outnumber
\* the deliveries.
C15_NoAutomaticRetry ==
    /\ lastPass.listener # 0 =>
          /\ \A i \in 1..Len(lastPass.results) : Cardinality(PlaceCalls(i)) <= 1
          /\ \A i, j \in 1..Len(lastPass.results) :
                i # j => lastPass.results[i].account # lastPass.results[j].account
    /\ \A target \in Targets, order \in SourceOrders :
          Cardinality(PlacedAll(target, order.i)) <= delivered

\* C15 witness: a target whose placement had failed on the first delivery was tried on the
\* redelivery, the venue rejected the order again, and it was submitted once.
C15_Witness ==
    /\ delivered = 2
    /\ \E i \in ResultsWith({"failed"}) :
          /\ lastPass.results[i].key \in lastPass.failedBefore
          /\ Cardinality(PlaceCalls(i)) = 1
          /\ \A c \in PlaceCalls(i) : ~lastPass.results[i].calls[c].ok


\* the order types the adapters are to place
SupportedTypes == {"MARKET", "LIMIT", "STOP_MARKET", "TAKE_PROFIT_MARKET"}

\* C16: an event whose order type no adapter supports gives every target a failed outcome
\* and no order is submitted to any venue.
C16_UnsupportedTypeNotSubmitted ==
    (lastPass.listener # 0 /\ Mirrorable(lastPass.msg)
        /\ lastPass.msg.o.o \notin SupportedTypes) =>
        /\ Len(lastPass.results) = Len(lastPass.all_accounts)
        /\ \A i \in 1..Len(lastPass.results) :
              /\ lastPass.results[i].outcome = "failed"
              /\ PlaceCalls(i) = {}

\* C17: a LIMIT event whose price is absent or zero (None, '', '0', '0.00') fails for
\* every target without an order being submitted, and every target gets its result.
C17_LimitWithoutPriceFails ==
    (lastPass.listener # 0 /\ lastPass.msg.o.o = "LIMIT" /\ lastPass.msg.o.X = "NEW"
        /\ lastPass.msg.o.p \in {None, "", "0", "0.00"}) =>
        /\ Len(lastPass.results) = Len(lastPass.all_accounts)
        /\ \A i \in 1..Len(lastPass.results) :
              /\ lastPass.results[i].outcome = "failed"
              /\ PlaceCalls(i) = {}

\* the time-in-force words of a venue for those of the source
VenueTimeInForce(op, tif) ==
    IF op = "ccxt.create_order"
    THEN CASE tif = "GTX" -> "PO"
           [] OTHER -> tif
    ELSE tif

\* C18: every LIMIT order submitted to a venue carries the quantity, the price and the
\* time-in-force of the source event, in the venue's words.
C18_LimitCarriesTimeInForce ==
    (lastPass.listener # 0 /\ lastPass.msg.o.o = "LIMIT") =>
        \A i \in 1..Len(lastPass.results) :
            \A c \in PlaceCalls(i) :
                /\ lastPass.results[i].calls[c].params.symbol # None
                /\ lastPass.results[i].calls[c].params.side # None
                /\ lastPass.results[i].calls[c].params.quantity = lastPass.msg.o.q
                /\ lastPass.results[i].calls[c].params.price = lastPass.msg.o.p
                /\ lastPass.results[i].calls[c].params.timeInForce =
                       VenueTimeInForce(lastPass.results[i].calls[c].op, lastPass.msg.o.f)


\* C19: once stop_bot has been called on a started bot, the subscription of its listener
\* is stopped (so no event reaches it any more) and its keep-alive task has ended.
C19_StopBotStopsListener ==
    (~bot.is_running /\ bot.source_listener # 0) =>
        /\ listeners[bot.source_listener].twm # "running"
        /\ listeners[bot.source_listener].alive # "running"

\* C20: a listener whose keep-alive renewal failed is no longer subscribed, and a bot
\* whose listener it is does not report itself as running.
C20_RenewalFailureStopsListener ==
    \A l \in 1..Len(listeners) :
        listeners[l].alive = "ended" =>
            /\ listeners[l].twm # "running"
            /\ (bot.source_listener = l => ~bot.is_running)

\* C23: no adapter operation the coordinator calls raises to its caller: for every target
\* of the last pass whose client was built, set_leverage handed back a value instead of
\* raising, whatever the venue or the network answered.
C23_AdapterNeverRaises ==
    \A i \in 1..Len(lastPass.results) :
        (lastPass.all_accounts[i].exchange_type = "binance" /\ Len(lastPass.results[i].calls) > 1)
            => BinanceClient_set_leverage(lastPass.all_accounts[i].api_key,
                                          lastPass.msg.o.s, 10, lastPass.envs[i].lev).value # "raise"

(***************************************************************************)
(* The clients of the loop: targets whose stored credentials are their own *)
(* and one whose credentials were saved blank                              *)
(***************************************************************************)
InitClients ==
    /\ registry = [a \in {B1, B3, P1} |-> "active"]
    /\ bot = [source_listener |-> 1, is_running |-> TRUE]
    /\ listeners = <<RunningListener>>
    /\ venueOrders = <<>>
    /\ trades = <<>>
    /\ failedKeys = <<{}>>
    /\ delivered = 0
    /\ lastPass = NoPass
    /\ polIn = <<None, None>>
    /\ polDone = FALSE
    /\ polOut = FALSE
    /\ callIn = NoDirectCall
    /\ callOut = NoReturn
    /\ stream = <<>>
    /\ current = NoCurrent

\* the client's construction raises or succeeds, the venue accepts or rejects the order
ClientEnvs(accounts) ==
    {envs \in EnvSeqs(accounts) :
        \A i \in 1..Len(envs) : envs[i].lev \in {"ok", "-"} /\ envs[i].db # "error"}

DeliverToClients ==
    \E order \in {Order1, Order2} :
        \E envs \in ClientEnvs(get_all_trading_accounts(registry, AllOk)) :
            Deliver(1, [e |-> "ORDER_TRADE_UPDATE", o |-> OrderData(order, "NEW")], AllOk, envs)

NextClients == DeliverToClients

SpecClients == InitClients /\ [][NextClients]_vars

\* C25: every order a venue accepted for a target account, and every leverage or
\* placement call of the last pass, was made with the api key stored in that account's
\* own row.
C25_OwnCredentials ==
    /\ \A i \in 1..Len(venueOrders) :
          \E a \in DOMAIN registry :
              /\ <<a.table, a.id>> = venueOrders[i].account
              /\ venueOrders[i].api_key = a.api_key
    /\ \A i \in 1..Len(lastPass.results) :
          \A c \in 1..Len(lastPass.results[i].calls) :
              lastPass.results[i].calls[c].api_key = lastPass.all_accounts[i].api_key

(***************************************************************************)
(* Order updates with missing fields and unknown values                    *)
(***************************************************************************)
NoSide == [Order1 EXCEPT !.i = 21, !.S = None]
NoQuantity == [Order1 EXCEPT !.i = 22, !.q = None]
NoPrices == [Order2 EXCEPT !.i = 23, !.p = None, !.sp = None]
NoType == [Order1 EXCEPT !.i = 24, !.o = None]
NoSymbol == [Order1 EXCEPT !.i = 25, !.s = None]

\* order updates that lack a field or carry a value the engine does not know, an update
\* without order data (msg.get('o', {})), messages of other kinds, and two complete updates
OddMessages ==
    {[e |-> "ORDER_TRADE_UPDATE", o |-> OrderData(order, "NEW")] :
         order \in {NoSide, NoQuantity, NoPrices, NoType, NoSymbol, Unknown, Order1, Order2}}
        \cup {[e |-> "ORDER_TRADE_UPDATE", o |-> OrderData(Order1, "FOO")],
              [e |-> "ORDER_TRADE_UPDATE", o |-> OrderData(Order2, None)],
              [e |-> "ORDER_TRADE_UPDATE", o |-> NoOrderData],
              [e |-> "error", o |-> NoOrderData],
              [e |-> None, o |-> NoOrderData]}

DeliverOdd ==
    \E msg \in OddMessages :
        \E envs \in IF Mirrorable(msg)
                    THEN ClientEnvs(get_all_trading_accounts(registry, AllOk))
                    ELSE {<<>>} :
            Deliver(1, msg, AllOk, envs)

NextMessages == DeliverOdd

SpecMessages == InitOrders /\ [][NextMessages]_vars

\* C24: whatever message the stream hands over, handle_socket_message returns: the pass
\* reaches every account it read, the listener stays subscribed, and its dedup set holds
\* exactly the keys of orders a venue accepted, so no key of a mirror that did not succeed.
C24_HandlerSurvivesAnyMessage ==
    delivered > 0 =>
        /\ listeners[1].twm = "running"
        /\ Len(lastPass.results) = Len(lastPass.all_accounts)
        /\ lastPass.summary = (lastPass.policy /\ Len(lastPass.all_accounts) > 0)
        /\ listeners[1]._mirror_dedup = {KeyOfPlaced(venueOrders[i]) : i \in 1..Len(venueOrders)}
        /\ \A i \in 1..Len(lastPass.results) :
              lastPass.results[i].outcome \in FailedOutcomes
                  => lastPass.results[i].key \notin listeners[1]._mirror_dedup

\* an update without a side failed on both targets, and the next message, a complete
\* MARKET order, was then mirrored to both
C24_Witness ==
    /\ delivered = 2
    /\ _dedup_key("binance", 1, "BTCUSDT", None, "MARKET", 21) \in lastPass.failedBefore
    /\ _dedup_key("phemex", 1, "BTCUSDT", None, "MARKET", 21) \in lastPass.failedBefore
    /\ lastPass.failedBefore \cap listeners[1]._mirror_dedup = {}
    /\ lastPass.msg.o = OrderData(Order1, "NEW")
    /\ lastPass.successful_mirrors = 2
    /\ Len(venueOrders) = 2

(***************************************************************************)
(* Database.get_all_trading_accounts on its own, over every registry and   *)
(* every answer of the database                                            *)
(***************************************************************************)
InitAccounts ==
    /\ registry \in [AccountPool \cup {B3} -> {"absent", "active"}]
    /\ bot = [source_listener |-> 0, is_running |-> FALSE]
    /\ listeners = <<>>
    /\ venueOrders = <<>>
    /\ trades = <<>>
    /\ failedKeys = <<>>
    /\ delivered = 0
    /\ lastPass = NoPass
    /\ polIn = <<None, None>>
    /\ polDone = FALSE
    /\ polOut = FALSE
    /\ callIn \in {[op |-> "get_all_trading_accounts", readEnv |-> r] : r \in ReadEnvs}
    /\ callOut = NoReturn
    /\ stream = <<>>
    /\ current = NoCurrent

ReadAccounts ==
    /\ callIn.op = "get_all_trading_accounts"
    /\ ~callOut.done
    /\ callOut' = [done |-> TRUE, value |-> get_all_trading_accounts(registry, callIn.readEnv)]
    /\ UNCHANGED <<registry, bot, listeners, venueOrders, trades, failedKeys, delivered,
                   lastPass, polIn, polDone, polOut, callIn, stream, current>>

NextAccounts == ReadAccounts

SpecAccounts == InitAccounts /\ [][NextAccounts]_vars

\* the rows the two tables hold
Stored == {a \in DOMAIN registry : registry[a] = "active"}

SideTokens == {"BUY", "SELL", "Buy", "buy", "LONG"}
TifTokens == {"GTC", "IOC", "FOK", "GTX", "GTD", "gtc", None}
SymbolTokens == {"BTCUSDT", "ETHUSDT", "USDT", "BTCUSD", "BTCUSDC", "btcusdt", "USDTBTC"}
PlaceTypes == {"MARKET", "LIMIT", "STOP_MARKET", "TAKE_PROFIT_MARKET", "TAKE_PROFIT", "FOO"}

TranslateCalls ==
    {[op |-> "translate", order_type |-> t, side |-> s, time_in_force |-> f] :
         t \in TypeTokens \ {None}, s \in SideTokens, f \in TifTokens}

SymbolCalls == {[op |-> "Convert_to_ccxt_symbol", symbol |-> s] : s \in SymbolTokens}

LeverageCalls ==
    {[op |-> "set_leverage", symbol |-> s, lev |-> e] : s \in SymbolTokens, e \in {"ok", "api_error"}}

PlaceCallArgs ==
    {[op |-> "place_order_ccxt", symbol |-> s, side |-> S, order_type |-> t, quantity |-> "0.01",
      price |-> p, stop_price |-> sp, time_in_force |-> f, place |-> e] :
         s \in {"BTCUSDT", "ETHUSDT", "BTCUSD"}, S \in {"BUY", "SELL"}, t \in PlaceTypes,
         p \in {None, "100"}, sp \in {None, "100.5"}, f \in {None, "GTC", "GTX"},
         e \in {"ok", "reject"}}

\* str.lower(), letter by letter
RECURSIVE str_lower(_)
str_lower(s) ==
    LET UpperCase == "ABCDEFGHIJKLMNOPQRSTUVWXYZ"
        LowerCase == "abcdefghijklmnopqrstuvwxyz"
        LowerChar(c) ==
            IF \E i \in 1..Len(UpperCase) : SubSeq(UpperCase, i, i) = c
            THEN LET i == CHOOSE k \in 1..Len(UpperCase) : SubSeq(UpperCase, k, k) = c
                 IN  SubSeq(LowerCase, i, i)
            ELSE c
    IN  IF Len(s) = 0 THEN s
        ELSE LowerChar(SubSeq(s, 1, 1)) \o str_lower(SubSeq(s, 2, Len(s)))

\* keyword in error_msg
Contains(error_msg, keyword) ==
    \E i \in 1..(Len(error_msg) - Len(keyword) + 1) :
        SubSeq(error_msg, i, i + Len(keyword) - 1) = keyword

\* PhemexClient._test_connection_alternative; wallet is what the wallet endpoint answers:
\* the request raises, or a JSON body with or without a 'code' field
_test_connection_alternative(wallet) ==
    IF wallet.raised THEN FALSE
    ELSE IF wallet.has_code THEN wallet.code \in {0, 10404, 11007}
    ELSE FALSE

\* PhemexClient.test_connection; markets and balance are what fetch_markets and
\* fetch_balance answer, balance.msg being str(auth_error)
PhemexClient_test_connection(markets, balance, wallet) ==
    IF markets = "raise" THEN _test_connection_alternative(wallet)
    ELSE IF markets = "empty" THEN FALSE
    ELSE IF ~balance.raised THEN TRUE
    ELSE IF \E keyword \in {"permission", "unauthorized", "forbidden", "api"} :
               Contains(str_lower(balance.msg), keyword)
         THEN TRUE
         ELSE _test_connection_alternative(wallet)

ConnectionCalls ==
    {[op |-> "test_connection", markets |-> m, balance |-> b, wallet |-> w] :
         m \in {"markets", "empty", "raise"},
         b \in {[raised |-> FALSE, msg |-> ""]}
                   \cup {[raised |-> TRUE, msg |-> e] :
                            e \in {"phemex 401 Request Unauthorized", "phemex 403 Forbidden",
                                   "phemex Permission denied", "phemex Invalid API Key",
                                   "phemex request timed out"}},
         w \in {[raised |-> TRUE, has_code |-> FALSE, code |-> 0],
                [raised |-> FALSE, has_code |-> FALSE, code |-> 0]}
                   \cup {[raised |-> FALSE, has_code |-> TRUE, code |-> c] :
                            c \in {0, 10404, 11007, 401, 10500}}}

InitTranslate ==
    /\ registry = [a \in AccountPool |-> "absent"]
    /\ bot = [source_listener |-> 0, is_running |-> FALSE]
    /\ listeners = <<>>
    /\ venueOrders = <<>>
    /\ trades = <<>>
    /\ failedKeys = <<>>
    /\ delivered = 0
    /\ lastPass = NoPass
    /\ polIn = <<None, None>>
    /\ polDone = FALSE
    /\ polOut = FALSE
    /\ callIn \in TranslateCalls \cup SymbolCalls \cup LeverageCalls \cup PlaceCallArgs
                     \cup ConnectionCalls
    /\ callOut = NoReturn
    /\ stream = <<>>
    /\ current = NoCurrent

Return(out) ==
    /\ ~callOut.done
    /\ callOut' = [done |-> TRUE, out |-> out]
    /\ UNCHANGED <<registry, bot, listeners, venueOrders, trades, failedKeys, delivered,
                   lastPass, polIn, polDone, polOut, callIn, stream, current>>

\* each translation function applied to its token
Translate ==
    /\ callIn.op = "translate"
    /\ Return([phemex_type |-> convert_binance_to_phemex_order_type(callIn.order_type),
               phemex_side |-> convert_binance_to_phemex_order_side(callIn.side),
               phemex_tif |-> convert_binance_to_phemex_time_in_force(callIn.time_in_force),
               ccxt_type |-> _convert_to_ccxt_order_type(callIn.order_type),
               ccxt_tif |-> _convert_to_ccxt_time_in_force(callIn.time_in_force)])

\* PhemexClient.Convert_to_ccxt_symbol: the pair, or ValueError
ConvertSymbol ==
    /\ callIn.op = "Convert_to_ccxt_symbol"
    /\ Return(IF EndsWithUSDT(callIn.symbol)
              THEN [raised |-> FALSE, value |-> Convert_to_ccxt_symbol(callIn.symbol)]
              ELSE [raised |-> TRUE, value |-> "ValueError"])

CallSetLeverage ==
    /\ callIn.op = "set_leverage"
    /\ Return(PhemexClient_set_leverage(P1.api_key, callIn.symbol, 10, callIn.lev))

CallPlaceOrder ==
    /\ callIn.op = "place_order_ccxt"
    /\ Return(PhemexClient_place_order_ccxt(P1.api_key, callIn.symbol, callIn.side,
                  callIn.order_type, callIn.quantity, callIn.price, callIn.stop_price,
                  callIn.time_in_force, FALSE, callIn.place))

\* the boolean is returned in a record, as the other calls' results are
CallTestConnection ==
    /\ callIn.op = "test_connection"
    /\ Return([value |-> PhemexClient_test_connection(callIn.markets, callIn.balance,
                                                      callIn.wallet)])

NextTranslate ==
    \/ Translate
    \/ ConvertSymbol
    \/ CallSetLeverage
    \/ CallPlaceOrder
    \/ CallTestConnection

SpecTranslate == InitTranslate /\ [][NextTranslate]_vars

\* the venue's name for a time-in-force word of the ccxt vocabulary
VenueName(ccxt_tif) ==
    CASE ccxt_tif = "GTC" -> "GoodTillCancel"
      [] ccxt_tif = "IOC" -> "ImmediateOrCancel"
      [] ccxt_tif = "FOK" -> "FillOrKill"
      [] ccxt_tif = "PO" -> "PostOnly"
      [] OTHER -> ccxt_tif

PairOf ==
    [s \in {"BTCUSDT", "ETHUSDT", "USDT"} |->
        CASE s = "BTCUSDT" -> "BTC/USDT:USDT"
          [] s = "ETHUSDT" -> "ETH/USDT:USDT"
          [] OTHER -> "/USDT:USDT"]

\* C28: Convert_to_ccxt_symbol gives '<base>/USDT:USDT' for a symbol '<base>USDT' and
\* raises for every other symbol; set_leverage and place_order_ccxt hand the pair to the
\* venue, and for a symbol that does not end in USDT they return a failed outcome
\* without calling the venue.
C28_SymbolConversion ==
    /\ (callOut.done /\ callIn.op = "Convert_to_ccxt_symbol") =>
          IF callIn.symbol \in DOMAIN PairOf
          THEN ~callOut.out.raised /\ callOut.out.value = PairOf[callIn.symbol]
          ELSE callOut.out.raised
    /\ (callOut.done /\ callIn.op \in {"set_leverage", "place_order_ccxt"}) =>
          IF callIn.symbol \in DOMAIN PairOf
          THEN \A c \in 1..Len(callOut.out.calls) :
                   callOut.out.calls[c].params.symbol = PairOf[callIn.symbol]
          ELSE /\ callOut.out.value = FALSE
               /\ callOut.out.calls = <<>>
               /\ callOut.out.placed = <<>>

\* place_order_ccxt was called for BTCUSD with a venue that would accept the order, and
\* returned a failure
C28_Witness ==
    /\ callOut.done
    /\ callIn.op = "place_order_ccxt"
    /\ callIn.symbol = "BTCUSD"
    /\ callIn.order_type = "MARKET"
    /\ callIn.place = "ok"
    /\ callOut.out.value = FALSE
    /\ callOut.out.calls = <<>>

\* the tokens each translation table maps
MappedTypes ==
    {"MARKET", "LIMIT", "STOP_MARKET", "STOP_LIMIT", "TAKE_PROFIT_MARKET", "TAKE_PROFIT",
     "TRAILING_STOP_MARKET"}

\* C29: every order-type, side and time-in-force translation function returns a token
\* outside its mapping table unchanged, character for character.
C29_UnmappedTokenVerbatim ==
    (callOut.done /\ callIn.op = "translate") =>
        /\ callIn.order_type \notin MappedTypes =>
              /\ callOut.out.phemex_type = callIn.order_type
              /\ callOut.out.ccxt_type = callIn.order_type
        /\ callIn.side \notin {"BUY", "SELL"} => callOut.out.phemex_side = callIn.side
        /\ callIn.time_in_force \notin {"GTC", "IOC", "FOK", "GTX"} =>
              /\ callOut.out.phemex_tif = callIn.time_in_force
              /\ callOut.out.ccxt_tif = callIn.time_in_force

\* C30: a STOP_MARKET or TAKE_PROFIT_MARKET order place_order_ccxt submits has reduceOnly
\* true, triggerType ByMarkPrice, posSide Merged, the stop price as its trigger price, and
\* the trigger direction of its type and side: STOP_MARKET SELL descending, BUY ascending,
\* TAKE_PROFIT_MARKET SELL ascending, BUY descending.
C30_ConditionalOrderShape ==
    (callOut.done /\ callIn.op = "place_order_ccxt"
         /\ callIn.order_type \in {"STOP_MARKET", "TAKE_PROFIT_MARKET"}) =>
        \A c \in 1..Len(callOut.out.calls) :
            /\ callOut.out.calls[c].params.reduceOnly = TRUE
            /\ callOut.out.calls[c].params.triggerType = "ByMarkPrice"
            /\ callOut.out.calls[c].params.posSide = "Merged"
            /\ callOut.out.calls[c].params.triggerPrice = callIn.stop_price
            /\ callOut.out.calls[c].params.side = (IF callIn.side = "SELL" THEN "sell" ELSE "buy")
            /\ callOut.out.calls[c].params.triggerDirection =
                   (CASE callIn.order_type = "STOP_MARKET" /\ callIn.side = "SELL" -> "descending"
                      [] callIn.order_type = "STOP_MARKET" /\ callIn.side = "BUY" -> "ascending"
                      [] callIn.order_type = "TAKE_PROFIT_MARKET" /\ callIn.side = "SELL" -> "ascending"
                      [] callIn.order_type = "TAKE_PROFIT_MARKET" /\ callIn.side = "BUY" -> "descending")

\* a TAKE_PROFIT_MARKET BUY was submitted and accepted, triggering on a falling price
C30_Witness ==
    /\ callOut.done
    /\ callIn.op = "place_order_ccxt"
    /\ callIn.order_type = "TAKE_PROFIT_MARKET"
    /\ callIn.side = "BUY"
    /\ callOut.out.value = TRUE
    /\ Len(callOut.out.placed) = 1
    /\ callOut.out.placed[1].triggerDirection = "descending"
    /\ callOut.out.placed[1].reduceOnly = TRUE

(***************************************************************************)
(* One handler call unfolded target by target, while the socket goes on    *)
(* receiving                                                               *)
(***************************************************************************)
MaxStream == 3

StreamMessages ==
    {[e |-> "ORDER_TRADE_UPDATE", o |-> OrderData(order, "NEW")] : order \in {Order1, Order2, LimitIOC}}
        \cup {[e |-> "ORDER_TRADE_UPDATE", o |-> OrderData(Order1, "FILLED")]}

\* the socket receives the next message of the source stream
Receive(msg) ==
    /\ Len(stream) < MaxStream
    /\ \A k \in 1..Len(stream) : stream[k] # msg
    /\ stream' = Append(stream, msg)
    /\ UNCHANGED <<registry, bot, listeners, venueOrders, trades, failedKeys, delivered,
                   lastPass, polIn, polDone, polOut, callIn, callOut, current>>

CanBegin_Offloaded(cur) == TRUE

\* handle_socket_message is an ordinary call made by the socket's reader: it is entered
\* for a message once it has returned for the message before
CanBegin(cur) == cur.pos = 0

\* the position in the stream of the message the reader hands over next
NextPos == IF current.pos = 0 THEN delivered + 1 ELSE current.pos + 1

\* handle_socket_message .. process_order_update up to the loop: policy and registry read
BeginHandle ==
    /\ listeners[1].twm = "running"
    /\ CanBegin(current)
    /\ NextPos <= Len(stream)
    /\ \E msg \in {stream[NextPos]} :
          current' =
              [pos |-> NextPos, msg |-> msg,
               st |-> PassStart(1, listeners[1]._mirror_dedup, trades, venueOrders),
               registryRead |-> Mirrorable(msg),
               all_accounts |-> IF Mirrorable(msg)
                                THEN get_all_trading_accounts(registry, AllOk)
                                ELSE <<>>,
               envs |-> <<>>,
               dedupBefore |-> listeners[1]._mirror_dedup, failedBefore |-> failedKeys[1],
               venueBefore |-> Len(venueOrders), tradesBefore |-> Len(trades)]
    /\ UNCHANGED <<registry, bot, listeners, venueOrders, trades, failedKeys, delivered,
                   lastPass, polIn, polDone, polOut, callIn, callOut, stream>>

\* one iteration of the loop over all_accounts
MirrorNext(env) ==
    /\ current.pos # 0
    /\ Len(current.envs) < Len(current.all_accounts)
    /\ ~current.st.aborted
    /\ env \in EnvsFor(current.all_accounts[Len(current.envs) + 1])
    /\ env.ctor = "ok" /\ env.lev = "ok" /\ env.db # "error"
    /\ \E st \in {MirrorToTarget(current.st, current.all_accounts[Len(current.envs) + 1], env,
                                 OrderArgs(current.msg.o))} :
          /\ current' = [current EXCEPT !.st = st, !.envs = Append(@, env)]
          /\ listeners' = [listeners EXCEPT ![1]._mirror_dedup = st.dedup]
          /\ venueOrders' = st.venueOrders
          /\ trades' = st.trades
    /\ UNCHANGED <<registry, bot, failedKeys, delivered, lastPass, polIn, polDone, polOut,
                   callIn, callOut, stream>>

\* the summary and the return of handle_socket_message
ReturnFromHandler ==
    /\ current.pos # 0
    /\ Len(current.envs) = Len(current.all_accounts) \/ current.st.aborted
    /\ failedKeys' = [failedKeys EXCEPT ![1] = @ \cup FailedNow(current.st.results)]
    /\ lastPass' =
           [listener |-> 1, msg |-> current.msg, policy |-> Mirrorable(current.msg),
            registryRead |-> current.registryRead, all_accounts |-> current.all_accounts,
            envs |-> current.envs, results |-> current.st.results,
            successful_mirrors |-> current.st.successful_mirrors,
            failed_mirrors |-> current.st.failed_mirrors,
            summary |-> Len(current.all_accounts) > 0 /\ ~current.st.aborted,
            dedupBefore |-> current.dedupBefore, failedBefore |-> current.failedBefore,
            venueBefore |-> current.venueBefore, tradesBefore |-> current.tradesBefore]
    /\ delivered' = delivered + 1
    /\ current' = NoCurrent
    /\ UNCHANGED <<registry, bot, listeners, venueOrders, trades, polIn, polDone, polOut,
                   callIn, callOut, stream>>

NextStream ==
    \/ \E msg \in StreamMessages : Receive(msg)
    \/ BeginHandle
    \/ \E env \in TargetEnvs : MirrorNext(env)
    \/ ReturnFromHandler

SpecStream == InitOrders /\ [][NextStream]_vars

\* the position in the stream of the event an accepted order mirrors
PosOf(v) ==
    CHOOSE k \in 1..Len(stream) : Mirrorable(stream[k]) /\ stream[k].o.i = v.args.source_order_id

C31_SameIdOtherVenueNotSkipped ==
    lastPass.listener # 0 =>
        \A j \in ResultsWith({"skipped"}) :
            \E v \in PlacedBy(lastPass.listener, lastPass.results[j].account, lastPass.msg.o.i) :
                v <= lastPass.venueBefore

\* on a redelivery the binance account with id 1, mirrored before, was skipped, and the
\* phemex account with id 1, not mirrored before, got its order
C31_Witness ==
    /\ B1.id = P1.id
    /\ lastPass.listener # 0
    /\ \E i \in ResultsWith({"skipped"}), j \in ResultsWith({"mirrored"}) :
          /\ lastPass.results[i].account = <<B1.table, B1.id>>
          /\ lastPass.results[j].account = <<P1.table, P1.id>>
          /\ PlacedBy(lastPass.listener, <<P1.table, P1.id>>, lastPass.msg.o.i)
                 \cap 1..lastPass.venueBefore = {}


\* C32: every renewal the keep-alive task has issued named a listen key: the listenKey of
\* a listener's last renewal request is never None.
C32_RenewalNamesListenKey ==
    \A l \in 1..Len(listeners) : listeners[l].renewed_key # None


\* the balance request was rejected as unauthorized or forbidden
Unauthorized(balance) ==
    /\ balance.raised
    /\ balance.msg \in {"phemex 401 Request Unauthorized", "phemex 403 Forbidden"}

\* C33: when the authenticated balance request is rejected as unauthorized or forbidden
\* and the wallet request, the only other authenticated one, does not succeed,
\* test_connection returns False.
C33_RejectedCredentialsRefused ==
    (/\ callIn.op = "test_connection"
     /\ callOut.done
     /\ callIn.markets = "markets"
     /\ Unauthorized(callIn.balance)
     /\ ~(~callIn.wallet.raised /\ callIn.wallet.has_code /\ callIn.wallet.code = 0))
        => callOut.out.value = FALSE


\* C34: at most one listener is subscribed to the source stream and at most one keep-alive
\* task is running, whatever start_bot and stop_bot calls were made.
C34_SingleSubscription ==
    /\ Cardinality({l \in 1..Len(listeners) : listeners[l].twm = "running"}) <= 1
    /\ Cardinality({l \in 1..Len(listeners) : listeners[l].alive = "running"}) <= 1

\* C35: a stop_bot call returns without raising and leaves is_running False.
C35_StopBotNeverRaises ==
    (callOut.done /\ callOut.out.op = "stop_bot") =>
        /\ ~callOut.out.raised
        /\ ~bot.is_running

Readable(readEnv) ==
    {a \in Registered : (a.table = "binance_accounts") = readEnv.binance}

\* C37: when one table's read fails and the other's succeeds, the pass works on exactly
\* the accounts of the readable table, gives each of them a result, and each of them on a
\* supported venue gets its order in this pass unless this listener mirrored the order to
\* it before.
C37_PartialReadStillMirrors ==
    [][\A l \in 1..MaxListeners, msg \in {m \in Messages : Mirrorable(m)}, readEnv \in OneSided :
           Deliver(l, msg, readEnv, OkEnvs(get_all_trading_accounts(registry, readEnv))) =>
               /\ TargetsOf(lastPass'.all_accounts) = {<<a.table, a.id>> : a \in Readable(readEnv)}
               /\ Len(lastPass'.all_accounts) = Cardinality(Readable(readEnv))
               /\ Len(lastPass'.results) = Cardinality(Readable(readEnv))
               /\ \A i \in 1..Len(lastPass'.results) :
                     lastPass'.all_accounts[i].exchange_type \in {"binance", "phemex"} =>
                         \/ /\ lastPass'.results[i].outcome = "mirrored"
                            /\ \E j \in (Len(venueOrders) + 1)..Len(venueOrders') :
                                  venueOrders'[j].account = lastPass'.results[i].account
                         \/ /\ lastPass'.results[i].outcome = "skipped"
                            /\ lastPass'.results[i].key \in listeners[l]._mirror_dedup]_vars

\* the binance table could not be read while both venues had an account: the pass mirrored
\* the event to the phemex account alone
C37_Witness ==
    /\ lastPass.listener # 0
    /\ registry[B1] = "active"
    /\ registry[P1] = "active"
    /\ TargetsOf(lastPass.all_accounts) = {<<P1.table, P1.id>>}
    /\ lastPass.results[1].outcome = "mirrored"
    /\ Len(venueOrders) = lastPass.venueBefore + 1
    /\ venueOrders[Len(venueOrders)].account = <<P1.table, P1.id>>

============================================================================
